---- MODULE Spec2Model ----
(***************************************************************************)
(* Model of the react-file-viewer repository.                              *)
(*                                                                         *)
(*   src/src/App.tsx      FileViewer: the embedded viewer, fed by          *)
(*                        FILE_DATA messages of the host window            *)
(*   src/unnamed/part_000 App: the standalone file-picker application      *)
(*                                                                         *)
(* React state is modelled by one record per component (viewer, app) whose *)
(* fields carry the names of the useState hooks.  An async handler is a    *)
(* record in a set of invocations in flight; each action runs one handler  *)
(* from one suspension point (await) to the next, as the single-threaded   *)
(* event loop does.  HTML is a sequence of tokens: a tag is one token, a   *)
(* text character is one token.                                            *)
(***************************************************************************)
EXTENDS Integers, Sequences, FiniteSets, TLC

VARIABLES
    viewer,     \* FileViewer's useState hooks (App.tsx 19-24)
    calls,      \* handleMessage invocations in flight (App.tsx 31-61)
    started,    \* number of FILE_DATA loads begun since the page was loaded
    latest,     \* history: the message of the load begun most recently
    last,       \* history: the step that produced the current viewer state
    app,        \* App's useState hooks (part_000 7-12)
    uploads,    \* handleFileUpload invocations in flight (part_000 14-66)
    objectURLs, \* the browser's registry of object URLs not yet revoked
    created,    \* number of object URLs created so far
    picked,     \* number of file selections handled so far
    appLast,    \* history: the step that produced the current app state
    docx,       \* the pure DOCX pass: converter outputs and processed HTML
    excel       \* the pure spreadsheet pass: workbook file and sheet list

vars == <<viewer, calls, started, latest, last, app, uploads, objectURLs,
          created, picked, appLast, docx, excel>>

viewerVars == <<viewer, calls, started, latest, last>>
appVars == <<app, uploads, objectURLs, created, picked, appLast>>

----------------------------------------------------------------------------
(* Bounds *)

\* FILE_DATA messages handled between two page loads
MaxLoads == 3
\* file selections of the standalone app
MaxUploads == 3
\* block elements of a converted document (pure DOCX pass)
MaxBlocks == 2
\* characters of one block's text (pure DOCX pass)
MaxText == 4
\* sheets of a workbook (pure spreadsheet pass)
MaxSheets == 3
\* dot-separated segments of a selected file's name
MaxSegments == 2

----------------------------------------------------------------------------
(* JavaScript values *)

\* null, for a state hook typed T | null holding a string
Null == "null"

\* null, for a state hook typed T | null holding an object
NullObject == [null |-> TRUE]

\* JavaScript truthiness of a string | null value
Truthy(s) == s # Null /\ s # ""

\* the sequences over S of length lo..hi
SeqsOf(S, lo, hi) == UNION {[1..n -> S] : n \in lo..hi}

----------------------------------------------------------------------------
(* HTML tokens *)

LF == "LF"
Underscore == "_"
SpanOpen == "<span class=\"underscore-field\">"
SpanClose == "</span>"

\* '_'.repeat(n)
Repeat(c, n) == [i \in 1..n |-> c]

\* the length of the run of underscores of s that starts at position i
RECURSIVE RunLen(_, _)
RunLen(s, i) ==
    IF i <= Len(s) /\ s[i] = Underscore THEN 1 + RunLen(s, i + 1) ELSE 0

\* content.replace(/_{3,}/g, u => `<span class="underscore-field">${'_'.repeat(u.length)}</span>`)
\* scanning from position i: the greedy quantifier takes the whole run
RECURSIVE ReplaceRuns(_, _)
ReplaceRuns(s, i) ==
    IF i > Len(s) THEN <<>>
    ELSE LET n == RunLen(s, i) IN
         IF n >= 3
         THEN <<SpanOpen>> \o Repeat(Underscore, n) \o <<SpanClose>>
              \o ReplaceRuns(s, i + n)
         ELSE <<s[i]>> \o ReplaceRuns(s, i + 1)

\* /<p>(.*?)<\/p>/ with "<p>" matched just before position j: the position of
\* the "</p>" that ends the lazy match, 0 when there is no match.  The dot
\* matches every character but a line terminator.
RECURSIVE MatchEnd(_, _)
MatchEnd(s, j) ==
    IF j > Len(s) THEN 0
    ELSE IF s[j] = "</p>" THEN j
    ELSE IF s[j] = LF THEN 0
    ELSE MatchEnd(s, j + 1)

\* processedHtml.replace(/<p>(.*?)<\/p>/g, (content) => ...) scanning from
\* position i.  The callback's first argument is the whole match, tags
\* included, and the callback returns it between a new pair of tags.
RECURSIVE ReplaceParagraphs(_, _)
ReplaceParagraphs(s, i) ==
    IF i > Len(s) THEN <<>>
    ELSE LET j == IF s[i] = "<p>" THEN MatchEnd(s, i + 1) ELSE 0 IN
         IF j > 0
         THEN LET content == SubSeq(s, i, j)
                  processedContent == ReplaceRuns(content, 1)
              IN  <<"<p>">> \o processedContent \o <<"</p>">>
                  \o ReplaceParagraphs(s, j + 1)
         ELSE <<s[i]>> \o ReplaceParagraphs(s, i + 1)

\* /_+/.test(textResult.value)
hasUnderscores(text) == \E i \in 1..Len(text) : text[i] = Underscore

\* renderDocx, lines 80-91: the HTML stored by setContent
processedHtml(html, text) ==
    IF hasUnderscores(text) THEN ReplaceParagraphs(html, 1) ELSE html

----------------------------------------------------------------------------
(* The DOCX converter (mammoth), as far as the viewer depends on it *)

RECURSIVE Flatten(_)
Flatten(ss) == IF ss = <<>> THEN <<>> ELSE Head(ss) \o Flatten(Tail(ss))

OpenTag(tag) == IF tag = "p" THEN "<p>" ELSE "<h1>"
CloseTag(tag) == IF tag = "p" THEN "</p>" ELSE "</h1>"

\* mammoth.convertToHtml: one element per paragraph of the document, its text
\* between the element's tags
ConvertToHtml(blocks) ==
    Flatten([k \in 1..Len(blocks) |->
        <<OpenTag(blocks[k].tag)>> \o blocks[k].text
        \o <<CloseTag(blocks[k].tag)>>])

\* mammoth.extractRawText: each paragraph's text followed by two newlines
ExtractRawText(blocks) ==
    Flatten([k \in 1..Len(blocks) |-> blocks[k].text \o <<LF, LF>>])

----------------------------------------------------------------------------
(* The workbook library (SheetJS), as far as the viewer depends on it *)

\* XLSX.read: SheetNames lists the sheets' names in file order; Sheets is an
\* object keyed by sheet name, so a later sheet of the same name replaces an
\* earlier one
XLSX_read(file) ==
    [SheetNames |-> [k \in 1..Len(file) |-> file[k].name],
     Sheets |-> [n \in {file[k].name : k \in 1..Len(file)} |->
        LET k == CHOOSE k \in 1..Len(file) :
                    /\ file[k].name = n
                    /\ \A m \in 1..Len(file) : file[m].name = n => m <= k
        IN  file[k].cells]]

\* XLSX.utils.sheet_to_html
sheet_to_html(worksheet) == <<"<table>", worksheet, "</table>">>

\* workbook.SheetNames.map(sheetName => ...), renderExcel lines 100-104 and
\* handleFileUpload lines 42-46
MapSheets(workbook) ==
    [k \in 1..Len(workbook.SheetNames) |->
        LET sheetName == workbook.SheetNames[k]
            worksheet == workbook.Sheets[sheetName]
            htmlTable == sheet_to_html(worksheet)
        IN  [name |-> sheetName, html |-> htmlTable]]

----------------------------------------------------------------------------
(* Files the host can send or the user can select *)

Junk == [kind |-> "junk"]
DocA == [kind |-> "docx",
         blocks |-> <<[tag |-> "p", text |-> <<"_", "_", "_">>]>>]
DocB == [kind |-> "docx", blocks |-> <<[tag |-> "p", text |-> <<"x">>]>>]
Wb1 == [kind |-> "xlsx", sheets |-> <<[name |-> "S1", cells |-> "c1"]>>]
Wb3 == [kind |-> "xlsx",
        sheets |-> <<[name |-> "S1", cells |-> "c1"],
                     [name |-> "S2", cells |-> "c2"],
                     [name |-> "S3", cells |-> "c3"]>>]

Buffers == {Junk, DocA, DocB, Wb1, Wb3}

\* a thrown Error object
Thrown(message) == [instanceofError |-> TRUE, message |-> message]

\* atob(fileData): throws on a string that is not base64
Atob(fileData) ==
    IF fileData.base64
    THEN [ok |-> TRUE, value |-> fileData.bytes]
    ELSE [ok |-> FALSE, err |-> Thrown("The string to be decoded is not correctly encoded.")]

\* mammoth.convertToHtml / mammoth.extractRawText on a buffer: rejected
\* unless the buffer is a DOCX archive
Mammoth(arrayBuffer) ==
    IF arrayBuffer.kind = "docx"
    THEN [ok |-> TRUE,
          html |-> ConvertToHtml(arrayBuffer.blocks),
          text |-> ExtractRawText(arrayBuffer.blocks)]
    ELSE [ok |-> FALSE, err |-> Thrown("Can't find end of central directory")]

\* XLSX.read(arrayBuffer, { type: 'array' }): throws unless the buffer is a workbook
ReadWorkbook(arrayBuffer) ==
    IF arrayBuffer.kind = "xlsx"
    THEN [ok |-> TRUE, workbook |-> XLSX_read(arrayBuffer.sheets)]
    ELSE [ok |-> FALSE, err |-> Thrown("Unsupported file")]

\* event.data of a message event
Messages ==
    [type : {"FILE_DATA"},
     fileType : {"docx", "xlsx", "pdf"},
     fileName : {"f"},
     fileData : {[base64 |-> FALSE, bytes |-> Junk]}
                \cup {[base64 |-> TRUE, bytes |-> b] : b \in Buffers}]
    \cup {[type |-> "PING", fileType |-> "docx", fileName |-> "f",
           fileData |-> [base64 |-> FALSE, bytes |-> Junk]]}

----------------------------------------------------------------------------
(* FileViewer, src/src/App.tsx *)

\* useState initial values, lines 19-24
ViewerInit ==
    [fileData |-> NullObject,
     content |-> <<>>,
     excelSheets |-> <<>>,
     selectedSheetIndex |-> 0,
     loading |-> TRUE,
     error |-> Null]

\* which screen the component renders, lines 111-143
ViewerPhase(v) ==
    IF v.loading THEN "Loading"
    ELSE IF Truthy(v.error) THEN "Error"
    ELSE IF v.fileData = NullObject THEN "Idle"
    ELSE "Ready"

\* the sheet tabs are rendered, lines 213-237
TabsRendered(v) ==
    /\ ViewerPhase(v) = "Ready"
    /\ v.fileData.type = "xlsx"
    /\ Len(v.excelSheets) > 1

\* err instanceof Error ? err.message : 'Unknown error occurred', line 57
ErrorMessage(err) ==
    IF err.instanceofError THEN err.message ELSE "Unknown error occurred"

\* a continuation of an awaited promise is queued: it runs before the next
\* message event or click is dispatched
MicrotaskPending == \E c \in calls : c.pc = "settle"

\* renderExcel that stores the sheet list and leaves the selected index alone
StoreExcelKeepIndex(v, fileName, sheets) ==
    [v EXCEPT !.fileData = [type |-> "xlsx", fileName |-> fileName, sheets |-> sheets],
              !.excelSheets = sheets]

\* renderExcel's three setters, lines 106-108
StoreExcel(v, fileName, sheets) ==
    [v EXCEPT !.fileData = [type |-> "xlsx", fileName |-> fileName, sheets |-> sheets],
              !.excelSheets = sheets,
              !.selectedSheetIndex = 0]

\* renderDocx's two setters, lines 93-94
StoreDocx(v, fileName, html) ==
    [v EXCEPT !.fileData = [type |-> "docx", fileName |-> fileName],
              !.content = html]

\* the catch block, lines 55-59
CatchError(v, err) ==
    [v EXCEPT !.error = ErrorMessage(err), !.loading = FALSE]

\* lines 36-37
StartLoading(v) == [v EXCEPT !.loading = TRUE, !.error = Null]

\* history record of a step: what it did, which load did it, the phase it
\* started from, and whether it began that load
Step(op, id, began) ==
    [op |-> op, id |-> id, from |-> ViewerPhase(viewer), began |-> began]

LastInit ==
    [op |-> "init", id |-> 0, from |-> ViewerPhase(ViewerInit), began |-> FALSE]

\* handleMessage on a message that is not FILE_DATA, line 32
IgnoreMessage ==
    /\ ~MicrotaskPending
    /\ \E msg \in Messages : msg.type # "FILE_DATA"
    /\ UNCHANGED vars

\* handleMessage on a FILE_DATA message, from its start to its first
\* suspension (lines 32-52), or to its end when nothing is awaited
HandleMessage ==
    /\ ~MicrotaskPending
    /\ started < MaxLoads
    /\ \E msg \in Messages :
        /\ msg.type = "FILE_DATA"
        /\ LET id == started + 1
               v1 == StartLoading(viewer)
               decoded == Atob(msg.fileData)
           IN
           /\ started' = id
           /\ latest' = msg
           /\ IF ~decoded.ok
              THEN /\ viewer' = CatchError(v1, decoded.err)
                   /\ calls' = calls
                   /\ last' = Step("failed", id, TRUE)
              ELSE IF msg.fileType = "docx"
              THEN /\ viewer' = v1
                   /\ calls' = calls \cup
                        {[id |-> id, pc |-> "convertToHtml",
                          fileName |-> msg.fileName,
                          arrayBuffer |-> decoded.value,
                          thrown |-> NullObject]}
                   /\ last' = Step("begin", id, TRUE)
              ELSE IF msg.fileType = "xlsx"
              THEN LET r == ReadWorkbook(decoded.value) IN
                   /\ viewer' = IF r.ok
                                THEN StoreExcel(v1, msg.fileName, MapSheets(r.workbook))
                                ELSE v1
                   /\ calls' = calls \cup
                        {[id |-> id, pc |-> "settle",
                          fileName |-> msg.fileName,
                          arrayBuffer |-> decoded.value,
                          thrown |-> IF r.ok THEN NullObject ELSE r.err]}
                   /\ last' = Step("begin", id, TRUE)
              ELSE /\ viewer' = [v1 EXCEPT !.loading = FALSE]
                   /\ calls' = calls
                   /\ last' = Step("unsupported", id, TRUE)
    /\ UNCHANGED <<appVars, docx, excel>>

\* await mammoth.convertToHtml settles, line 78
ConvertToHtmlSettles ==
    /\ \E c \in calls :
        /\ c.pc = "convertToHtml"
        /\ LET r == Mammoth(c.arrayBuffer) IN
           calls' = (calls \ {c}) \cup
                {IF r.ok THEN [c EXCEPT !.pc = "extractRawText"]
                 ELSE [c EXCEPT !.pc = "settle", !.thrown = r.err]}
    /\ UNCHANGED <<viewer, started, latest, last, appVars, docx, excel>>

\* await mammoth.extractRawText settles and renderDocx runs to its end,
\* lines 79-94
ExtractRawTextSettles ==
    /\ \E c \in calls :
        /\ c.pc = "extractRawText"
        /\ LET r == Mammoth(c.arrayBuffer) IN
           IF r.ok
           THEN /\ viewer' = StoreDocx(viewer, c.fileName, processedHtml(r.html, r.text))
                /\ calls' = (calls \ {c}) \cup {[c EXCEPT !.pc = "settle"]}
                /\ last' = Step("store", c.id, FALSE)
           ELSE /\ viewer' = viewer
                /\ calls' = (calls \ {c}) \cup
                        {[c EXCEPT !.pc = "settle", !.thrown = r.err]}
                /\ last' = last
    /\ UNCHANGED <<started, latest, appVars, docx, excel>>

\* handleMessage resumes after await renderDocx / await renderExcel:
\* line 54, or the catch block
Settle ==
    /\ \E c \in calls :
        /\ c.pc = "settle"
        /\ IF c.thrown = NullObject
           THEN /\ viewer' = [viewer EXCEPT !.loading = FALSE]
                /\ last' = Step("ready", c.id, FALSE)
           ELSE /\ viewer' = CatchError(viewer, c.thrown)
                /\ last' = Step("failed", c.id, FALSE)
        /\ calls' = calls \ {c}
    /\ UNCHANGED <<started, latest, appVars, docx, excel>>

\* onClick of a sheet tab, line 226
SelectSheet ==
    /\ ~MicrotaskPending
    /\ TabsRendered(viewer)
    /\ \E idx \in 0..(Len(viewer.excelSheets) - 1) :
        viewer' = [viewer EXCEPT !.selectedSheetIndex = idx]
    /\ last' = Step("select", 0, FALSE)
    /\ UNCHANGED <<calls, started, latest, appVars, docx, excel>>

\* onClick of "Try Again", line 127: window.location.reload()
Reload ==
    /\ ~MicrotaskPending
    /\ ViewerPhase(viewer) = "Error"
    /\ viewer' = ViewerInit
    /\ calls' = {}
    /\ started' = 0
    /\ latest' = NullObject
    /\ last' = LastInit
    /\ UNCHANGED <<appVars, docx, excel>>

ViewerNext ==
    \/ IgnoreMessage
    \/ HandleMessage
    \/ ConvertToHtmlSettles
    \/ ExtractRawTextSettles
    \/ Settle
    \/ SelectSheet
    \/ Reload

----------------------------------------------------------------------------
(* App, src/unnamed/part_000 *)

Pdf == [kind |-> "pdf"]

\* the parts of a file name between its dots
NameSegments ==
    {"a", "", "docx", "DOCX", "xlsx", "xls", "Xls", "pdf", "PDF",
     "doc", "ppt", "PPTX", "txt"}

\* file names, as file.name.split('.') returns them: "a.pdf" is <<"a", "pdf">>,
\* "pdf" is <<"pdf">>, "a." is <<"a", "">>
FileNames == SeqsOf(NameSegments, 1, MaxSegments)

\* the files the user can select: any name with any bytes
Files == [name : FileNames, bytes : {Junk, DocA, Wb3, Pdf}]

\* String.prototype.toLowerCase on the name segments in use
toLowerCase(str) ==
    CASE str = "DOCX" -> "docx"
      [] str = "Xls" -> "xls"
      [] str = "PDF" -> "pdf"
      [] str = "PPTX" -> "pptx"
      [] OTHER -> str

\* String.prototype.toUpperCase on the legacy extensions
toUpperCase(str) ==
    CASE str = "doc" -> "DOC"
      [] str = "ppt" -> "PPT"
      [] str = "pptx" -> "PPTX"
      [] OTHER -> str

\* file.name.split('.').pop()?.toLowerCase(), line 26
fileExtension(file) == toLowerCase(file.name[Len(file.name)])

\* URL.createObjectURL: a fresh URL, as the content of the iframe's src
ObjectURL(n) == <<"blob:" \o ToString(n)>>

\* useState initial values, lines 7-12
AppInit ==
    [selectedFile |-> NullObject,
     fileContent |-> <<>>,
     fileType |-> "",
     isLoading |-> FALSE,
     error |-> "",
     excelData |-> <<>>]

\* the file input without its disabled attribute
InputEnabledWhileLoading(a) == a.selectedFile = NullObject

\* the file input is rendered and enabled, lines 87-103
InputEnabled(a) == a.selectedFile = NullObject /\ ~a.isLoading

\* the "Remove document" button is rendered, lines 135-157
ClearRendered(a) == a.selectedFile # NullObject

\* lines 19-23
ResetForUpload(a, file) ==
    [a EXCEPT !.error = "",
              !.isLoading = TRUE,
              !.selectedFile = file,
              !.fileContent = <<>>,
              !.excelData = <<>>]

\* the catch block, line 62, followed by the finally block
CatchUpload(a, err) ==
    [a EXCEPT !.error = "Error loading file: " \o
                    (IF err.instanceofError THEN err.message ELSE "Unknown error"),
              !.isLoading = FALSE]

\* handleFileUpload when the dialog was closed without a file, line 17
UploadNothing ==
    /\ InputEnabled(app)
    /\ UNCHANGED vars

\* handleFileUpload on a selected file, from its start to its first
\* suspension (lines 15-38), or to its end when nothing is awaited
HandleFileUpload ==
    /\ InputEnabled(app)
    /\ picked < MaxUploads
    /\ \E file \in Files :
        LET a == ResetForUpload(app, file)
            ext == fileExtension(file)
            id == picked + 1
        IN
        /\ picked' = id
        /\ IF ext = "docx"
           THEN /\ app' = [a EXCEPT !.fileType = "word"]
                /\ uploads' = uploads \cup
                        {[id |-> id, pc |-> "arrayBuffer", pipeline |-> "word", file |-> file]}
                /\ UNCHANGED <<objectURLs, created>>
           ELSE IF ext = "xlsx" \/ ext = "xls"
           THEN /\ app' = [a EXCEPT !.fileType = "excel"]
                /\ uploads' = uploads \cup
                        {[id |-> id, pc |-> "arrayBuffer", pipeline |-> "excel", file |-> file]}
                /\ UNCHANGED <<objectURLs, created>>
           ELSE IF ext = "pdf"
           THEN LET url == ObjectURL(created + 1) IN
                /\ app' = [a EXCEPT !.fileType = "pdf",
                                    !.fileContent = url,
                                    !.isLoading = FALSE]
                /\ objectURLs' = objectURLs \cup {url}
                /\ created' = created + 1
                /\ UNCHANGED uploads
           ELSE IF ext = "doc" \/ ext = "ppt" \/ ext = "pptx"
           THEN /\ app' = [a EXCEPT
                        !.error = toUpperCase(ext) \o
                            " files require conversion. Please save as DOCX (for Word) or use Google Docs viewer.",
                        !.isLoading = FALSE]
                /\ UNCHANGED <<uploads, objectURLs, created>>
           ELSE /\ app' = [a EXCEPT
                        !.error = "Unsupported file type. Please upload .docx, .xlsx, .xls, or .pdf files.",
                        !.isLoading = FALSE]
                /\ UNCHANGED <<uploads, objectURLs, created>>
        /\ appLast' = [op |-> "upload", cleared |-> FALSE]
    /\ UNCHANGED <<viewerVars, docx, excel>>

\* await file.arrayBuffer() settles: the Word pipeline goes on to its next
\* await (line 32), the Excel pipeline runs to its end (lines 39-48, 61-65)
ArrayBufferSettles ==
    /\ \E u \in uploads :
        /\ u.pc = "arrayBuffer"
        /\ IF u.pipeline = "word"
           THEN /\ uploads' = (uploads \ {u}) \cup {[u EXCEPT !.pc = "convertToHtml"]}
                /\ UNCHANGED <<app, appLast>>
           ELSE LET r == ReadWorkbook(u.file.bytes) IN
                /\ uploads' = uploads \ {u}
                /\ app' = IF r.ok
                          THEN [app EXCEPT !.excelData = MapSheets(r.workbook),
                                           !.isLoading = FALSE]
                          ELSE CatchUpload(app, r.err)
                /\ appLast' = [appLast EXCEPT !.op = IF r.ok THEN "loaded" ELSE "failed"]
    /\ UNCHANGED <<objectURLs, created, picked, viewerVars, docx, excel>>

\* await mammoth.convertToHtml settles and the handler runs to its end,
\* lines 32-33 and 61-65
UploadConvertSettles ==
    /\ \E u \in uploads :
        /\ u.pc = "convertToHtml"
        /\ LET result == Mammoth(u.file.bytes) IN
           /\ app' = IF result.ok
                     THEN [app EXCEPT !.fileContent = result.html,
                                      !.isLoading = FALSE]
                     ELSE CatchUpload(app, result.err)
           /\ appLast' = [appLast EXCEPT !.op = IF result.ok THEN "loaded" ELSE "failed"]
        /\ uploads' = uploads \ {u}
    /\ UNCHANGED <<objectURLs, created, picked, viewerVars, docx, excel>>

\* handleClearFile, lines 68-74
HandleClearFile ==
    /\ ClearRendered(app)
    /\ app' = [app EXCEPT !.selectedFile = NullObject,
                          !.fileContent = <<>>,
                          !.excelData = <<>>,
                          !.fileType = "",
                          !.error = ""]
    /\ appLast' = [op |-> "clear", cleared |-> TRUE]
    /\ UNCHANGED <<uploads, objectURLs, created, picked, viewerVars, docx, excel>>

AppNext ==
    \/ UploadNothing
    \/ HandleFileUpload
    \/ ArrayBufferSettles
    \/ UploadConvertSettles
    \/ HandleClearFile

----------------------------------------------------------------------------
(* The DOCX pass and the spreadsheet pass on their own *)

\* documents: paragraphs and headings with non-empty text (the converter
\* drops empty paragraphs)
Documents ==
    SeqsOf([tag : {"p", "h1"}, text : SeqsOf({Underscore, "x", LF}, 1, MaxText)],
           1, MaxBlocks)

\* workbook files: the sheets in file order
WorkbookFiles ==
    SeqsOf([name : {"S1", "S2"}, cells : {"c1", "c2", "c3"}], 1, MaxSheets)

\* renderDocx, lines 78-79: the two conversions
DocxConvert ==
    /\ docx.pc = "input"
    /\ docx' = [pc |-> "converted",
                blocks |-> docx.blocks,
                htmlResult |-> ConvertToHtml(docx.blocks),
                textResult |-> ExtractRawText(docx.blocks)]
    /\ UNCHANGED <<viewerVars, appVars, excel>>

\* renderDocx, lines 80-94: the underscore pass
DocxProcess ==
    /\ docx.pc = "converted"
    /\ docx' = [pc |-> "done",
                blocks |-> docx.blocks,
                htmlResult |-> docx.htmlResult,
                textResult |-> docx.textResult,
                content |-> processedHtml(docx.htmlResult, docx.textResult)]
    /\ UNCHANGED <<viewerVars, appVars, excel>>

DocxNext == DocxConvert \/ DocxProcess

\* renderExcel, line 98
ExcelRead ==
    /\ excel.pc = "input"
    /\ excel' = [pc |-> "read", file |-> excel.file,
                 workbook |-> XLSX_read(excel.file)]
    /\ UNCHANGED <<viewerVars, appVars, docx>>

\* renderExcel, lines 100-107
ExcelMap ==
    /\ excel.pc = "read"
    /\ excel' = [pc |-> "done", file |-> excel.file,
                 excelSheets |-> MapSheets(excel.workbook)]
    /\ UNCHANGED <<viewerVars, appVars, docx>>

ExcelNext == ExcelRead \/ ExcelMap

----------------------------------------------------------------------------
(* Specifications *)

\* values of the variables a specification does not use
AppIdle ==
    /\ app = AppInit
    /\ uploads = {}
    /\ objectURLs = {}
    /\ created = 0
    /\ picked = 0
    /\ appLast = [op |-> "init", cleared |-> FALSE]

PureIdle ==
    /\ docx = [pc |-> "idle"]
    /\ excel = [pc |-> "idle"]

ViewerIdle ==
    /\ viewer = ViewerInit
    /\ calls = {}
    /\ started = 0
    /\ latest = NullObject
    /\ last = LastInit

InitViewer == ViewerIdle /\ AppIdle /\ PureIdle

SpecViewer == InitViewer /\ [][ViewerNext]_vars

InitApp == AppIdle /\ ViewerIdle /\ PureIdle

SpecApp == InitApp /\ [][AppNext]_vars

InitDocx ==
    /\ ViewerIdle
    /\ AppIdle
    /\ excel = [pc |-> "idle"]
    /\ docx \in {[pc |-> "input", blocks |-> b] : b \in Documents}

SpecDocx == InitDocx /\ [][DocxNext]_vars

InitExcel ==
    /\ ViewerIdle
    /\ AppIdle
    /\ docx = [pc |-> "idle"]
    /\ excel \in {[pc |-> "input", file |-> f] : f \in WorkbookFiles}

SpecExcel == InitExcel /\ [][ExcelNext]_vars

----------------------------------------------------------------------------
(* Properties of FileViewer, under SpecViewer *)

ViewerHoldsContent(v) ==
    \/ v.fileData # NullObject
    \/ v.content # <<>>
    \/ v.excelSheets # <<>>

\* what the load of message m produces on its own
LoadOutcome(m) ==
    LET d == Atob(m.fileData) IN
    IF ~d.ok THEN [ok |-> FALSE, error |-> ErrorMessage(d.err)]
    ELSE IF m.fileType = "docx"
    THEN LET r == Mammoth(d.value) IN
         IF r.ok
         THEN [ok |-> TRUE, type |-> "docx",
               content |-> processedHtml(r.html, r.text)]
         ELSE [ok |-> FALSE, error |-> ErrorMessage(r.err)]
    ELSE IF m.fileType = "xlsx"
    THEN LET r == ReadWorkbook(d.value) IN
         IF r.ok
         THEN [ok |-> TRUE, type |-> "xlsx", sheets |-> MapSheets(r.workbook)]
         ELSE [ok |-> FALSE, error |-> ErrorMessage(r.err)]
    ELSE [ok |-> TRUE, type |-> "none"]

\* content, error and loading of v are those of the load of m
Reflects(v, m) ==
    LET o == LoadOutcome(m) IN
    /\ ~v.loading
    /\ IF ~o.ok THEN v.error = o.error
       ELSE /\ v.error = Null
            /\ o.type = "docx" =>
                /\ v.fileData # NullObject
                /\ v.fileData.type = "docx"
                /\ v.content = o.content
            /\ o.type = "xlsx" =>
                /\ v.fileData # NullObject
                /\ v.fileData.type = "xlsx"
                /\ v.excelSheets = o.sheets

\* a step of a load that is no longer the one begun most recently
StaleLoadActs ==
    /\ last' # last
    /\ last'.op \in {"store", "ready", "failed"}
    /\ ~last'.began
    /\ last'.id < started

\* C1: stale-result suppression.  Once a later load has begun, no step of an
\* earlier load changes the view state; and when every load has settled,
\* content, error and loading are those of the load begun last.
C1_StaleResultSuppressed ==
    /\ [][StaleLoadActs => viewer' = viewer]_vars
    /\ []((calls = {} /\ started > 0) => Reflects(viewer, latest))

\* a load has stored its content and its continuation, which switches
\* loading off, is queued
StoringLoadPending == \E c \in calls : c.pc = "settle" /\ c.thrown = NullObject

\* C2: content is held only in phase Ready (no state in phase Loading, Error
\* or Idle holds the content of an earlier load), and an error message only
\* in phase Error.
C2_ContentOnlyWhenReady ==
    /\ (ViewerHoldsContent(viewer) /\ ~StoringLoadPending) =>
            ViewerPhase(viewer) = "Ready"
    /\ viewer.error # Null => ViewerPhase(viewer) = "Error"

\* the lifecycle of the specification: a phase change from `from` by a step
\* that did `op`, having begun a load in the same step or not
LifecycleStep(from, to, op, began) ==
    LET mid == IF began THEN "Loading" ELSE from IN
    \/ mid = to
    \/ /\ mid = "Loading"
       /\ to \in {"Ready", "Error"}
       /\ op \in {"ready", "failed", "unsupported"}
    \/ /\ to = "Idle"
       /\ op = "clear"

\* C4: the view starts in phase Idle and the phase changes only along
\* Idle -> Loading -> {Ready, Error} -> Loading, and any -> Idle on clear.
C4_Lifecycle ==
    /\ last.op = "init" => ViewerPhase(viewer) = "Idle"
    /\ LifecycleStep(last.from, ViewerPhase(viewer), last.op, last.began)

\* C5: a load that fails (malformed base64, conversion failure, unsupported
\* declared type) ends in phase Error with a non-empty message and no
\* content.
C5_FailureEndsInError ==
    last.op \in {"failed", "unsupported"} =>
        /\ ViewerPhase(viewer) = "Error"
        /\ Truthy(viewer.error)
        /\ ~ViewerHoldsContent(viewer)

\* C6: whenever a spreadsheet is shown, the selected sheet index is the
\* index of one of its sheets.
C6_SheetIndexInRange ==
    (ViewerPhase(viewer) = "Ready" /\ viewer.fileData.type = "xlsx") =>
        /\ 0 <= viewer.selectedSheetIndex
        /\ viewer.selectedSheetIndex < Len(viewer.excelSheets)

\* a one-sheet workbook is shown by the third load, after a workbook with
\* more sheets had been shown
C6_Witness ==
    /\ ViewerPhase(viewer) = "Ready"
    /\ viewer.fileData.type = "xlsx"
    /\ Len(viewer.excelSheets) = 1
    /\ last.op = "ready"
    /\ last.id = 3
    /\ last.from = "Loading"

----------------------------------------------------------------------------
(* Properties of App, under SpecApp *)

\* C3: from a clear until the next load begins the loading flag is off and
\* no file, content, type or error is held.
C3_ClearYieldsIdle ==
    appLast.cleared =>
        /\ ~app.isLoading
        /\ app.selectedFile = NullObject
        /\ app.fileContent = <<>>
        /\ app.excelData = <<>>
        /\ app.fileType = ""
        /\ app.error = ""

\* the object URL is the source of the PDF frame, lines 197-205
Displayed(url) ==
    /\ app.selectedFile # NullObject
    /\ app.fileType = "pdf"
    /\ app.fileContent = url

\* C7: every object URL created by a PDF load is revoked, on clear or on the
\* load that supersedes it: no object URL that is no longer displayed
\* remains in the registry of unrevoked URLs.
C7_HandleRevoked == \A url \in objectURLs : Displayed(url)

\* the outcome the dispatch on a file name is to have: the name's extension
\* is the part after its last dot, and a name without a dot has none
DeclaredType(name) ==
    IF Len(name) < 2 THEN "unsupported"
    ELSE LET e == toLowerCase(name[Len(name)]) IN
         IF e = "docx" THEN "docx"
         ELSE IF e \in {"xlsx", "xls"} THEN "spreadsheet"
         ELSE IF e = "pdf" THEN "pdf"
         ELSE IF e \in {"doc", "ppt", "pptx"} THEN "legacy"
         ELSE "unsupported"

LegacyMessage(name) ==
    toUpperCase(toLowerCase(name[Len(name)])) \o
    " files require conversion. Please save as DOCX (for Word) or use Google Docs viewer."

UnsupportedMessage ==
    "Unsupported file type. Please upload .docx, .xlsx, .xls, or .pdf files."

\* the outcomes the state shows for the selected file
ChosenOutcomes(a) ==
    {o \in {"docx", "spreadsheet", "pdf", "legacy", "unsupported"} :
        \/ o = "docx" /\ a.fileType = "word"
        \/ o = "spreadsheet" /\ a.fileType = "excel"
        \/ o = "pdf" /\ a.fileType = "pdf"
        \/ o = "legacy" /\ a.error = LegacyMessage(a.selectedFile.name)
        \/ o = "unsupported" /\ a.error = UnsupportedMessage}

\* C11: the pipeline is chosen from the name's extension alone,
\* case-insensitively: docx -> DOCX, xlsx or xls -> Spreadsheet, pdf -> PDF,
\* doc, ppt and pptx -> the legacy message naming the extension, every other
\* name (also one with no extension) -> Unsupported; exactly one outcome.
C11_DispatchOnExtension ==
    appLast.op = "upload" =>
        ChosenOutcomes(app) = {DeclaredType(app.selectedFile.name)}

\* C12: at most one handleFileUpload is in flight, and isLoading is on as
\* long as one is.
C12_OneLoadInFlight ==
    /\ Cardinality(uploads) <= 1
    /\ uploads # {} => app.isLoading

\* the file was removed while its load was in flight: the file input is
\* rendered again and the load has not finished
C12_Witness ==
    /\ appLast.cleared
    /\ app.selectedFile = NullObject
    /\ Cardinality(uploads) = 1
    /\ app.isLoading

----------------------------------------------------------------------------
(* Properties of the DOCX pass, under SpecDocx *)

\* the maximal runs of underscores of s from position i on, in order, each
\* with its length and whether it sits alone inside a marker span
RECURSIVE Runs(_, _)
Runs(s, i) ==
    IF i > Len(s) THEN <<>>
    ELSE LET n == RunLen(s, i) IN
         IF n = 0 THEN Runs(s, i + 1)
         ELSE <<[n |-> n,
                 wrapped |-> /\ i > 1
                             /\ s[i - 1] = SpanOpen
                             /\ i + n <= Len(s)
                             /\ s[i + n] = SpanClose]>>
              \o Runs(s, i + n)

\* the runs of the document, in order, each with its length and whether it
\* is in a paragraph element
DocumentRuns(blocks) ==
    Flatten([k \in 1..Len(blocks) |->
        LET rs == Runs(blocks[k].text, 1) IN
        [j \in 1..Len(rs) |-> [n |-> rs[j].n, inParagraph |-> blocks[k].tag = "p"]]])

\* C8: when the plain text contains an underscore, every run of n >= 3
\* underscores inside a paragraph element is replaced by a marker span whose
\* text is exactly n underscores, and every run of 1 or 2 is left unwrapped.
C8_RunsHighlighted ==
    (docx.pc = "done" /\ hasUnderscores(docx.textResult)) =>
        LET want == DocumentRuns(docx.blocks)
            got == Runs(docx.content, 1)
        IN  /\ Len(got) = Len(want)
            /\ \A k \in 1..Len(want) :
                want[k].inParagraph =>
                    /\ got[k].n = want[k].n
                    /\ got[k].wrapped <=> want[k].n >= 3

\* the HTML without the marker spans' tags
StripSpans(s) == SelectSeq(s, LAMBDA t : t # SpanOpen /\ t # SpanClose)

\* C9: apart from the marker spans inserted around runs of 3 or more
\* underscores, the output HTML equals the converter's HTML.
C9_OnlySpansInserted ==
    docx.pc = "done" => StripSpans(docx.content) = docx.htmlResult

----------------------------------------------------------------------------
(* Properties of the spreadsheet pass, under SpecExcel *)

\* C10: the result has one entry per sheet of the workbook, and the i-th
\* entry carries the i-th sheet's name and the HTML converted from the i-th
\* sheet's own data.
C10_Positional ==
    excel.pc = "done" =>
        /\ Len(excel.excelSheets) = Len(excel.file)
        /\ \A i \in 1..Len(excel.file) :
            /\ excel.excelSheets[i].name = excel.file[i].name
            /\ excel.excelSheets[i].html = sheet_to_html(excel.file[i].cells)

====
